---- MODULE Spec2Model ----
(***************************************************************************)
(* Model of compare_eb_modules.py: the manifest reader read_modules_list,  *)
(* the file scanner find_eb_files, the sample formatter display_examples   *)
(* and the pipeline of main (read, scan, diff, two writes, report).        *)
(*                                                                         *)
(* A Python str is a sequence of one-character strings.  A text file is a  *)
(* record [exists, lines]: lines is what readlines() yields with the line  *)
(* terminators removed, and what a run of f.write(item + "\n") leaves.     *)
(* No name or line of the model contains a line terminator.                *)
(***************************************************************************)
EXTENDS Integers, Sequences, FiniteSets, TLC

VARIABLES
    root_path,      \* args.root_path: "missing", "repo" or "." (the working directory)
    modules_file,   \* args.modules_file: the name of a file of the working directory
    verbose,        \* args.verbose
    examples,       \* args.examples
    tree,           \* the paths below the root directory, each a sequence of names
    fs,             \* the files of the working directory
    pc,             \* position of main
    modules,        \* main: modules
    eb_files,       \* main: eb_files
    modules_set,    \* main: modules_set
    eb_files_set,   \* main: eb_files_set
    eb_files_without_modules,   \* main: eb_files_without_modules
    modules_without_eb_files,   \* main: modules_without_eb_files
    summary,        \* the four counts printed under "Summary:"
    shown,          \* what the verbose branch printed
    runs,           \* number of the current run of the program
    fsStart,        \* the working directory's files when the current run started
    prevOut         \* the two output files as the previous completed run left them

vars == <<root_path, modules_file, verbose, examples, tree, fs, pc, modules,
          eb_files, modules_set, eb_files_set, eb_files_without_modules,
          modules_without_eb_files, summary, shown, runs, fsStart, prevOut>>

---------------------------------------------------------------------------
(* Bounds *)

MaxLines == 2
MaxReaderLines == 2
MaxFiles == 2
MaxScanFiles == 2
MaxRuns == 2
MaxExamples == 6
MaxNegExamples == 2

\* parser.add_argument('--examples', type=int, default=5, ...)
DefaultExamples == 5

---------------------------------------------------------------------------
(* Characters and strings *)

\* The characters of the model in code-point order.
Chars == <<"\t", " ", "-", ".", "/",
           "0", "1", "2", "3", "4", "5", "6", "7", "8", "9", ":",
           "B", "E", "_",
           "a", "b", "c", "d", "e", "f", "g", "h", "i", "j", "k", "l", "m",
           "n", "o", "p", "q", "r", "s", "t", "u", "v", "w", "x", "y", "z">>

\* Position of a character in code-point order (order-isomorphic to ord()).
CodeRank(c) == CHOOSE i \in 1..Len(Chars) : Chars[i] = c

IsDigit(c) == c \in {"0", "1", "2", "3", "4", "5", "6", "7", "8", "9"}

IsSpace(c) == c \in {" ", "\t"}

Min(a, b) == IF a <= b THEN a ELSE b

Max(a, b) == IF a >= b THEN a ELSE b

ToSet(s) == {s[i] : i \in 1..Len(s)}

\* c in s
Contains(s, c) == \E i \in 1..Len(s) : s[i] = c

\* any(c.isdigit() for c in s)
HasDigit(s) == \E i \in 1..Len(s) : IsDigit(s[i])

\* s.endswith(suffix)
EndsWith(s, suffix) ==
    /\ Len(s) >= Len(suffix)
    /\ SubSeq(s, Len(s) - Len(suffix) + 1, Len(s)) = suffix

RECURSIVE LStrip(_)
LStrip(s) == IF s # <<>> /\ IsSpace(Head(s)) THEN LStrip(Tail(s)) ELSE s

RECURSIVE RStrip(_)
RStrip(s) ==
    IF s # <<>> /\ IsSpace(s[Len(s)]) THEN RStrip(SubSeq(s, 1, Len(s) - 1)) ELSE s

\* s.strip()
Strip(s) == RStrip(LStrip(s))

\* s.replace('/', '-')
ReplaceSlash(s) == [i \in 1..Len(s) |-> IF s[i] = "/" THEN "-" ELSE s[i]]

\* a < b for Python strings: lexicographic by code point.
RECURSIVE StrLess(_, _)
StrLess(a, b) ==
    IF b = <<>> THEN FALSE
    ELSE IF a = <<>> THEN TRUE
    ELSE IF Head(a) # Head(b) THEN CodeRank(Head(a)) < CodeRank(Head(b))
    ELSE StrLess(Tail(a), Tail(b))

RECURSIVE SortedDescending(_)
SortedDescending(S) ==
    IF S = {} THEN <<>>
    ELSE LET m == CHOOSE x \in S : \A y \in S : x = y \/ StrLess(y, x)
         IN  <<m>> \o SortedDescending(S \ {m})

\* sorted(S) for a set of strings
RECURSIVE Sorted(_)
Sorted(S) ==
    IF S = {} THEN <<>>
    ELSE LET m == CHOOSE x \in S : \A y \in S : x = y \/ StrLess(x, y)
         IN  <<m>> \o Sorted(S \ {m})

---------------------------------------------------------------------------
(* Manifest lines, identifiers and names used as inputs *)

L_gcc == <<"g","c","c","/","1","1",".","2",".","0">>
L_python == <<"p","y","t","h","o","n","/">>
L_note == <<"n","o","t","e",":"," ","s","e","e"," ","a","l","s","o">>
L_zlib == <<"z","l","i","b">>
L_openssl == <<"o","p","e","n","s","s","l","/","3",".","0",".","1">>
L_empty == <<>>
L_blank == <<" ","\t">>
L_padded == <<" ","g","c","c","/","1","1",".","2",".","0","\t">>
L_toolsgcc == <<"t","o","o","l","s","/","g","c","c">>
L_py3 == <<"p","y","3","/">>
L_colon == <<"a",":","/","1">>
L_gccdash == <<"g","c","c","-","1","1",".","2",".","0">>
L_nested == <<"a","/","b","/","1">>
L_inner == <<"a"," ","b","/","1">>
L_stale == <<"s","t","a","l","e","-","0",".","1">>

Id_gcc == <<"g","c","c","-","1","1",".","2",".","0">>
Id_openssl == <<"o","p","e","n","s","s","l","-","3",".","0",".","1">>
Id_zlib == <<"z","l","i","b">>

N_gcc_eb == <<"g","c","c","-","1","1",".","2",".","0",".","e","b">>
N_openssl_eb == <<"o","p","e","n","s","s","l","-","3",".","0",".","1",".","e","b">>
N_readme_eb == <<"r","e","a","d","m","e",".","e","b">>
N_sub == <<"s","u","b">>
N_hidden_eb == <<".","h","1",".","e","b">>
N_hidden_dir == <<".","d">>
N_z2_eb == <<"z","2",".","e","b">>
N_dir_eb == <<"x","1",".","e","b">>
N_y_txt == <<"y",".","t","x","t">>
N_dot_eb == <<".","e","b">>
N_notes == <<"n","o","t","e","s","1",".","t","x","t">>
N_upper == <<"B","2",".","E","B">>
N_ext_eb_repo == <<"e","x","t","_","e","b","_","r","e","p","o",".","t","x","t">>
N_ext_modules == <<"e","x","t","_","m","o","d","u","l","e","s",".","t","x","t">>
N_modules_txt == <<"m","o","d","u","l","e","s",".","t","x","t">>

\* The manifest of the documented example.
ExampleManifest == <<L_gcc, L_python, L_note, L_zlib, L_openssl>>

\* Lines a manifest of the pipeline runs is made of.
LinePool == {L_gcc, L_zlib, L_openssl, L_python, L_gccdash}

\* Lines a manifest of the reader runs is made of.
ReaderLinePool == {L_gcc, L_python, L_note, L_zlib, L_openssl, L_empty, L_blank,
                   L_padded, L_toolsgcc, L_py3, L_colon, L_gccdash, L_nested, L_inner}

\* All sequences over S of length at most n.
SeqsUpTo(S, n) == UNION {[1..k -> S] : k \in 0..n}

\* All subsets of S with at most n elements.
SubsetsUpTo(S, n) == {T \in SUBSET S : Cardinality(T) <= n}

---------------------------------------------------------------------------
(* The working directory *)

FileNames == {"modules.txt", "ext_eb_repo.txt", "ext_modules.txt"}

OutputNames == {"ext_eb_repo.txt", "ext_modules.txt"}

Absent == [exists |-> FALSE, lines |-> <<>>]

File(lines) == [exists |-> TRUE, lines |-> lines]

\* The name of a file of the working directory as a string of characters.
NameChars(n) ==
    CASE n = "modules.txt" -> N_modules_txt
      [] n = "ext_eb_repo.txt" -> N_ext_eb_repo
      [] n = "ext_modules.txt" -> N_ext_modules

OpenAppend(old, items) == File(old.lines \o items)

\* with open(name, 'w') as f: for item in items: f.write(f"{item}\n")
OpenWrite(old, items) == File(items)

---------------------------------------------------------------------------
(* read_modules_list *)

read_modules_list_nodigit(lines) ==
    SelectSeq([i \in 1..Len(lines) |-> ReplaceSlash(Strip(lines[i]))],
              LAMBDA l : l # <<>> /\ HasDigit(l) /\ ~Contains(l, ":"))

\* The loop over the lines of the manifest; the result is the list modules.
RECURSIVE read_modules_list(_)
read_modules_list(lines) ==
    IF lines = <<>> THEN <<>>
    ELSE LET line == Strip(Head(lines))
             rest == read_modules_list(Tail(lines))
         IN  IF line = <<>> THEN rest
             ELSE IF EndsWith(line, <<"/">>) THEN rest
             ELSE IF Contains(line, ":") THEN rest
             ELSE IF Contains(line, "/") /\ ~HasDigit(line) THEN rest
             ELSE <<ReplaceSlash(line)>> \o rest

---------------------------------------------------------------------------
(* find_eb_files *)

Last(s) == s[Len(s)]

\* The nonempty prefixes of a path: the path and the directories above it.
Prefixes(p) == {SubSeq(p, 1, k) : k \in 1..Len(p)}

\* Every file and directory below the root, as a path relative to the root.
\* A root that is the working directory also holds the working directory's files.
DirEntries(root, t, files) ==
    IF root = "missing" THEN {}
    ELSE UNION {Prefixes(p) : p \in t}
         \cup (IF root = "."
               THEN {<<NameChars(n)>> : n \in {m \in FileNames : files[m].exists}}
               ELSE {})

\* glob._ishidden
IsHidden(name) == name # <<>> /\ name[1] = "."

\* fnmatch of a name against '*.eb'
fnmatch_eb(name) == EndsWith(name, <<".", "e", "b">>)

\* glob.glob(os.path.join(root_path, '**', '*.eb'), recursive=True) as a set:
\* '**' does not descend into hidden directories and '*.eb' matches no hidden name.
GlobMatches(entries) ==
    {e \in entries : fnmatch_eb(Last(e)) /\ \A i \in 1..Len(e) : ~IsHidden(e[i])}

\* The orders in which glob may yield its matches (the order of os.scandir
\* is not specified).
GlobOrders(S) ==
    {g \in [1..Cardinality(S) -> S] : \A i, j \in 1..Cardinality(S) : g[i] = g[j] => i = j}

\* os.path.basename
basename(path) == Last(path)

\* os.path.splitext(name)[0]: cut at the last dot, unless only dots precede it.
splitext0(name) ==
    LET dots == {i \in 1..Len(name) : name[i] = "."}
    IN  IF dots = {} THEN name
        ELSE LET d == CHOOSE i \in dots : \A j \in dots : j <= i
             IN  IF \E k \in 1..(d - 1) : name[k] # "." THEN SubSeq(name, 1, d - 1)
                 ELSE name

\* The loop over the paths glob yields; the result is the list eb_files.
RECURSIVE find_eb_files(_)
find_eb_files(globbed) ==
    IF globbed = <<>> THEN <<>>
    ELSE LET filename == basename(Head(globbed))
             name_without_ext == splitext0(filename)
             rest == find_eb_files(Tail(globbed))
         IN  IF ~HasDigit(name_without_ext) THEN rest
             ELSE <<name_without_ext>> \o rest

---------------------------------------------------------------------------
(* display_examples *)

\* s[:count]
SliceTo(s, count) ==
    IF count >= 0 THEN SubSeq(s, 1, Min(count, Len(s)))
    ELSE SubSeq(s, 1, Max(0, Len(s) + count))

\* The bullets "\n  - " + "\n  - ".join(sample) prints: one per element, and
\* a single empty bullet for an empty sample.
Bullets(sample) == IF sample = <<>> THEN <<<<>>>> ELSE sample

\* The returned text: "None", or the bullets followed, when len(items) > count,
\* by the bullet "... (K more)" (more = <<K>>).
display_examples(items, count) ==
    IF items = {} THEN [none |-> TRUE, bullets |-> <<>>, more |-> <<>>]
    ELSE LET sample == SliceTo(Sorted(items), count)
         IN  IF Cardinality(items) > count
             THEN [none |-> FALSE, bullets |-> Bullets(sample),
                   more |-> <<Cardinality(items) - count>>]
             ELSE [none |-> FALSE, bullets |-> Bullets(sample), more |-> <<>>]

---------------------------------------------------------------------------
(* main *)

DifferenceSwapped(a, b) == b \ a

\* a - b for Python sets
Difference(a, b) == a \ b

NoSummary == [eb_files |-> 0, modules |-> 0, eb_files_without_modules |-> 0,
              modules_without_eb_files |-> 0]

Outputs(files) == [n \in OutputNames |-> files[n]]

ReadManifest_swallow ==
    /\ pc = "start"
    /\ modules' = IF fs[modules_file].exists
                  THEN read_modules_list(fs[modules_file].lines) ELSE <<>>
    /\ pc' = "read"
    /\ UNCHANGED <<root_path, modules_file, verbose, examples, tree, fs, eb_files,
                   modules_set, eb_files_set, eb_files_without_modules,
                   modules_without_eb_files, summary, shown, runs, fsStart, prevOut>>

\* modules = read_modules_list(args.modules_file); open() raises when the
\* file cannot be opened and nothing catches it.
ReadManifest ==
    /\ pc = "start"
    /\ IF fs[modules_file].exists
       THEN /\ modules' = read_modules_list(fs[modules_file].lines)
            /\ pc' = "read"
       ELSE /\ pc' = "failed"
            /\ UNCHANGED modules
    /\ UNCHANGED <<root_path, modules_file, verbose, examples, tree, fs, eb_files,
                   modules_set, eb_files_set, eb_files_without_modules,
                   modules_without_eb_files, summary, shown, runs, fsStart, prevOut>>

FindEbFiles_raises ==
    /\ pc = "read"
    /\ IF root_path = "missing"
       THEN pc' = "failed" /\ UNCHANGED eb_files
       ELSE /\ \E g \in GlobOrders(GlobMatches(DirEntries(root_path, tree, fs))) :
                    eb_files' = find_eb_files(g)
            /\ pc' = "scanned"
    /\ UNCHANGED <<root_path, modules_file, verbose, examples, tree, fs, modules,
                   modules_set, eb_files_set, eb_files_without_modules,
                   modules_without_eb_files, summary, shown, runs, fsStart, prevOut>>

\* eb_files = find_eb_files(args.root_path)
FindEbFiles ==
    /\ pc = "read"
    /\ \E g \in GlobOrders(GlobMatches(DirEntries(root_path, tree, fs))) :
            eb_files' = find_eb_files(g)
    /\ pc' = "scanned"
    /\ UNCHANGED <<root_path, modules_file, verbose, examples, tree, fs, modules,
                   modules_set, eb_files_set, eb_files_without_modules,
                   modules_without_eb_files, summary, shown, runs, fsStart, prevOut>>

\* The two sets and their two differences.
Diff ==
    /\ pc = "scanned"
    /\ modules_set' = ToSet(modules)
    /\ eb_files_set' = ToSet(eb_files)
    /\ eb_files_without_modules' = Difference(ToSet(eb_files), ToSet(modules))
    /\ modules_without_eb_files' = Difference(ToSet(modules), ToSet(eb_files))
    /\ pc' = "diffed"
    /\ UNCHANGED <<root_path, modules_file, verbose, examples, tree, fs, modules,
                   eb_files, summary, shown, runs, fsStart, prevOut>>

\* with open('ext_eb_repo.txt', 'w') as f: ...
WriteEbRepo ==
    /\ pc = "diffed"
    /\ fs' = [fs EXCEPT !["ext_eb_repo.txt"] =
                  OpenWrite(@, Sorted(eb_files_without_modules))]
    /\ pc' = "wrote_eb_repo"
    /\ UNCHANGED <<root_path, modules_file, verbose, examples, tree, modules, eb_files,
                   modules_set, eb_files_set, eb_files_without_modules,
                   modules_without_eb_files, summary, shown, runs, fsStart, prevOut>>

\* with open('ext_modules.txt', 'w') as f: ...
WriteModules ==
    /\ pc = "wrote_eb_repo"
    /\ fs' = [fs EXCEPT !["ext_modules.txt"] =
                  OpenWrite(@, Sorted(modules_without_eb_files))]
    /\ pc' = "wrote_modules"
    /\ UNCHANGED <<root_path, modules_file, verbose, examples, tree, modules, eb_files,
                   modules_set, eb_files_set, eb_files_without_modules,
                   modules_without_eb_files, summary, shown, runs, fsStart, prevOut>>

Report_copy_paste ==
    /\ pc = "wrote_modules"
    /\ summary' = [eb_files |-> Len(eb_files), modules |-> Len(modules),
                   eb_files_without_modules |-> Cardinality(eb_files_without_modules),
                   modules_without_eb_files |-> Cardinality(eb_files_without_modules)]
    /\ shown' = IF verbose
                THEN <<display_examples(eb_files_without_modules, examples),
                       display_examples(modules_without_eb_files, examples)>>
                ELSE <<>>
    /\ pc' = "done"
    /\ UNCHANGED <<root_path, modules_file, verbose, examples, tree, fs, modules,
                   eb_files, modules_set, eb_files_set, eb_files_without_modules,
                   modules_without_eb_files, runs, fsStart, prevOut>>

\* The summary, and the examples when verbose.
Report ==
    /\ pc = "wrote_modules"
    /\ summary' = [eb_files |-> Len(eb_files), modules |-> Len(modules),
                   eb_files_without_modules |-> Cardinality(eb_files_without_modules),
                   modules_without_eb_files |-> Cardinality(modules_without_eb_files)]
    /\ shown' = IF verbose
                THEN <<display_examples(eb_files_without_modules, examples),
                       display_examples(modules_without_eb_files, examples)>>
                ELSE <<>>
    /\ pc' = "done"
    /\ UNCHANGED <<root_path, modules_file, verbose, examples, tree, fs, modules,
                   eb_files, modules_set, eb_files_set, eb_files_without_modules,
                   modules_without_eb_files, runs, fsStart, prevOut>>

\* The program is started again with the same arguments; nothing but the
\* program has touched the files in between.
RunAgain ==
    /\ pc = "done"
    /\ runs < MaxRuns
    /\ runs' = runs + 1
    /\ prevOut' = Outputs(fs)
    /\ fsStart' = fs
    /\ pc' = "start"
    /\ modules' = <<>>
    /\ eb_files' = <<>>
    /\ modules_set' = {}
    /\ eb_files_set' = {}
    /\ eb_files_without_modules' = {}
    /\ modules_without_eb_files' = {}
    /\ summary' = NoSummary
    /\ shown' = <<>>
    /\ UNCHANGED <<root_path, modules_file, verbose, examples, tree, fs>>

\* The state of a first run before main reads anything.
Fresh ==
    /\ pc = "start"
    /\ modules = <<>>
    /\ eb_files = <<>>
    /\ modules_set = {}
    /\ eb_files_set = {}
    /\ eb_files_without_modules = {}
    /\ modules_without_eb_files = {}
    /\ summary = NoSummary
    /\ shown = <<>>
    /\ runs = 1
    /\ fsStart = fs
    /\ prevOut = Outputs(fs)

---------------------------------------------------------------------------
(* The pipeline: any manifest, any tree, any manifest path, stale outputs *)

PathPool == {<<N_gcc_eb>>, <<N_sub, N_gcc_eb>>, <<N_readme_eb>>, <<N_openssl_eb>>,
             <<N_hidden_dir, N_z2_eb>>}

ManifestFiles == {Absent} \cup {File(l) : l \in SeqsUpTo(LinePool, MaxLines)}
                          \cup {File(ExampleManifest)}

StaleFiles == {Absent, File(<<L_stale>>)}

Init ==
    /\ root_path \in {"missing", "repo", "."}
    /\ tree \in IF root_path = "missing" THEN {{}} ELSE SubsetsUpTo(PathPool, MaxFiles)
    /\ modules_file \in FileNames
    /\ \E content \in ManifestFiles, old \in StaleFiles :
          fs = [n \in FileNames |-> IF n = modules_file THEN content
                                    ELSE IF n \in OutputNames THEN old ELSE Absent]
    /\ verbose = FALSE
    /\ examples = DefaultExamples
    /\ Fresh

Next ==
    \/ ReadManifest
    \/ FindEbFiles
    \/ Diff
    \/ WriteEbRepo
    \/ WriteModules
    \/ Report
    \/ RunAgain

Spec == Init /\ [][Next]_vars

---------------------------------------------------------------------------
(* The reader alone, on manifests of every kind of line *)

ReaderFiles == {Absent} \cup {File(l) : l \in SeqsUpTo(ReaderLinePool, MaxReaderLines)}
                        \cup {File(ExampleManifest)}

InitReader ==
    /\ root_path = "repo"
    /\ tree = {}
    /\ modules_file = "modules.txt"
    /\ \E content \in ReaderFiles :
          fs = [n \in FileNames |-> IF n = modules_file THEN content ELSE Absent]
    /\ verbose = FALSE
    /\ examples = DefaultExamples
    /\ Fresh

NextReader == ReadManifest

SpecReader == InitReader /\ [][NextReader]_vars

---------------------------------------------------------------------------
(* The scanner alone, on trees of every kind of name *)

ScanPathPool == PathPool \cup
    {<<N_hidden_eb>>, <<N_dir_eb, N_y_txt>>, <<N_dot_eb>>, <<N_notes>>, <<N_upper>>,
     <<N_sub, N_z2_eb>>}

InitScanner ==
    /\ root_path \in {"missing", "repo", "."}
    /\ tree \in IF root_path = "missing" THEN {{}}
                ELSE SubsetsUpTo(ScanPathPool, MaxScanFiles)
    /\ modules_file = "modules.txt"
    /\ fs = [n \in FileNames |-> IF n = modules_file THEN File(<<L_gcc>>) ELSE Absent]
    /\ verbose = FALSE
    /\ examples = DefaultExamples
    /\ Fresh

NextScanner ==
    \/ ReadManifest
    \/ FindEbFiles

SpecScanner == InitScanner /\ [][NextScanner]_vars

---------------------------------------------------------------------------
(* Verbose runs, for every sample size --examples accepts within the bounds *)

Id_ab1 == <<"a", "-", "b", "-", "1">>
Id_z2 == <<"z", "2">>
Id_B2 == <<"B", "2">>

DisplayIdPool == {Id_gcc, Id_openssl, Id_ab1, Id_z2, Id_B2}

InitDisplay ==
    /\ root_path = "repo"
    /\ tree \in {{}, {<<N_gcc_eb>>, <<N_upper>>, <<N_z2_eb>>}}
    /\ modules_file = "modules.txt"
    /\ \E S \in SUBSET DisplayIdPool :
          fs = [n \in FileNames |-> IF n = modules_file THEN File(Sorted(S)) ELSE Absent]
    /\ verbose = TRUE
    /\ examples \in (0 - MaxNegExamples)..MaxExamples
    /\ Fresh

NextDisplay ==
    \/ ReadManifest
    \/ FindEbFiles
    \/ Diff
    \/ WriteEbRepo
    \/ WriteModules
    \/ Report

SpecDisplay == InitDisplay /\ [][NextDisplay]_vars

---------------------------------------------------------------------------
(* Properties *)

\* The lines of the manifest as the current run found them.
ManifestLines == fsStart[modules_file].lines

PastScan == pc \in {"scanned", "diffed", "wrote_eb_repo", "wrote_modules", "done"}

PastDiff == pc \in {"diffed", "wrote_eb_repo", "wrote_modules", "done"}

StrictlyIncreasing(s) == \A i \in 1..(Len(s) - 1) : StrLess(s[i], s[i + 1])

\* Number of positions of s holding x.
Count(s, x) == Cardinality({i \in 1..Len(s) : s[i] = x})

\* The four tests a stripped manifest line has to pass.
Survives(l) ==
    /\ l # <<>>
    /\ ~EndsWith(l, <<"/">>)
    /\ ~Contains(l, ":")
    /\ ~(Contains(l, "/") /\ ~HasDigit(l))

\* C1: read_modules_list returns, in line order and with duplicates kept, the
\* identifiers of exactly the stripped lines that are not empty, do not end
\* with '/', contain no ':' and are not (with '/' and without digit); an
\* identifier is the stripped line with '/' replaced by '-', so none contains
\* '/' or ':'.
Thm_C1 ==
    pc = "read" =>
        LET stripped == [i \in 1..Len(ManifestLines) |-> Strip(ManifestLines[i])]
            kept == SelectSeq(stripped, Survives)
        IN  /\ modules = [i \in 1..Len(kept) |-> ReplaceSlash(kept[i])]
            /\ \A i \in 1..Len(modules) :
                  ~Contains(modules[i], "/") /\ ~Contains(modules[i], ":")

Wit_C1 ==
    /\ pc = "read"
    /\ ManifestLines = <<L_toolsgcc, L_padded>>
    /\ modules = <<Id_gcc>>

\* C2: a manifest line without a digit is skipped whether or not it contains
\* '/', so every returned identifier has a digit; for the example manifest the
\* result is exactly gcc-11.2.0, openssl-3.0.1.
CE_C2 ==
    pc = "read" =>
        /\ \A i \in 1..Len(modules) : HasDigit(modules[i])
        /\ ManifestLines = ExampleManifest => modules = <<Id_gcc, Id_openssl>>

\* C3: after a completed run ext_eb_repo.txt holds exactly fileSet - manifestSet
\* and ext_modules.txt exactly manifestSet - fileSet, each element once, one per
\* line, strictly increasing, whatever the two files held before; for manifest
\* identifiers {gcc-11.2.0, openssl-3.0.1} and file identifiers {gcc-11.2.0} the
\* first is empty and the second holds the line openssl-3.0.1.
Thm_C3 ==
    pc = "done" =>
        LET repo == fs["ext_eb_repo.txt"]
            mods == fs["ext_modules.txt"]
            fileSet == ToSet(eb_files)
            manifestSet == ToSet(modules)
        IN  /\ repo.exists /\ mods.exists
            /\ ToSet(repo.lines) = fileSet \ manifestSet
            /\ ToSet(mods.lines) = manifestSet \ fileSet
            /\ StrictlyIncreasing(repo.lines)
            /\ StrictlyIncreasing(mods.lines)
            /\ (manifestSet = {Id_gcc, Id_openssl} /\ fileSet = {Id_gcc}) =>
                  (repo.lines = <<>> /\ mods.lines = <<Id_openssl>>)

Wit_C3 ==
    /\ pc = "done"
    /\ runs = 1
    /\ fsStart["ext_eb_repo.txt"].lines = <<L_stale>>
    /\ fsStart["ext_modules.txt"].lines = <<L_stale>>
    /\ ToSet(modules) = {Id_gcc, Id_openssl}
    /\ ToSet(eb_files) = {Id_gcc}
    /\ fs["ext_eb_repo.txt"] = File(<<>>)
    /\ fs["ext_modules.txt"] = File(<<Id_openssl>>)

\* C4: the two difference sets main computes obey the set-difference laws with
\* respect to the set of file identifiers and the set of manifest identifiers.
Thm_C4 ==
    PastDiff =>
        LET fileSet == ToSet(eb_files)
            manifestSet == ToSet(modules)
            both == fileSet \cap manifestSet
        IN  /\ eb_files_without_modules \cap manifestSet = {}
            /\ modules_without_eb_files \cap fileSet = {}
            /\ eb_files_without_modules \cap modules_without_eb_files = {}
            /\ fileSet = both \cup eb_files_without_modules
            /\ manifestSet = both \cup modules_without_eb_files

Wit_C4 ==
    /\ pc = "diffed"
    /\ eb_files_without_modules = {Id_openssl}
    /\ modules_without_eb_files = {Id_zlib}
    /\ ToSet(eb_files) \cap ToSet(modules) = {Id_gcc}

\* The name with the extension '.eb' removed.
Stem(name) == SubSeq(name, 1, Len(name) - 3)

\* C5: find_eb_files returns one identifier, the name without '.eb', for each
\* path below the root whose name ends in '.eb' and whose stem has a digit, and
\* nothing else; for the files gcc-11.2.0.eb and readme.eb it returns gcc-11.2.0.
CE_C5 ==
    pc = "scanned" =>
        LET entries == DirEntries(root_path, tree, fs)
            counted == {e \in entries : /\ EndsWith(Last(e), <<".", "e", "b">>)
                                        /\ HasDigit(Stem(Last(e)))}
        IN  /\ Len(eb_files) = Cardinality(counted)
            /\ \A e \in counted :
                  Count(eb_files, Stem(Last(e)))
                      = Cardinality({d \in counted : Stem(Last(d)) = Stem(Last(e))})
            /\ entries = {<<N_gcc_eb>>, <<N_readme_eb>>} => eb_files = <<Id_gcc>>

\* C6: a second run with the same arguments leaves both output files as the
\* first run left them.
CE_C6 == (pc = "done" /\ runs >= 2) => Outputs(fs) = prevOut

\* C6 as amended: a second run with the same arguments leaves both output files
\* as the first run left them, provided the manifest file is not itself one of
\* the two output files.
Thm_C6 ==
    (pc = "done" /\ runs >= 2 /\ modules_file \notin OutputNames) =>
        Outputs(fs) = prevOut

Wit_C6 ==
    /\ pc = "done"
    /\ runs = 2
    /\ modules_file = "modules.txt"
    /\ root_path = "."
    /\ fs["ext_eb_repo.txt"].lines = <<Id_openssl>>
    /\ fs["ext_modules.txt"].lines = <<Id_zlib>>
    /\ prevOut = Outputs(fs)

\* C7: with a nonexistent or empty root the scan yields the empty list and
\* raises nothing (a run fails only on an unreadable manifest), and the
\* completed run leaves ext_eb_repo.txt empty and ext_modules.txt listing every
\* distinct manifest identifier.
Thm_C7 ==
    DirEntries(root_path, tree, fsStart) = {} =>
        /\ PastScan => eb_files = <<>>
        /\ pc = "failed" => ~fsStart[modules_file].exists
        /\ pc = "done" =>
              /\ fs["ext_eb_repo.txt"] = File(<<>>)
              /\ fs["ext_modules.txt"].exists
              /\ ToSet(fs["ext_modules.txt"].lines) = ToSet(modules)
              /\ StrictlyIncreasing(fs["ext_modules.txt"].lines)

Wit_C7 ==
    /\ pc = "done"
    /\ root_path = "missing"
    /\ eb_files = <<>>
    /\ fs["ext_eb_repo.txt"] = File(<<>>)
    /\ fs["ext_modules.txt"] = File(<<Id_gcc, Id_zlib>>)

\* What display_examples is said to return for the set S and the sample size N:
\* the elements it lists are the Min(N, |S|) smallest, and the line
\* '... (K more)' is there exactly when |S| > N, K being what was not listed.
AsDescribed(S, N, r) ==
    IF S = {} THEN r.none
    ELSE LET listed == SelectSeq(r.bullets, LAMBDA b : b \in S)
         IN  /\ ~r.none
             /\ listed = SubSeq(Sorted(S), 1, Min(N, Cardinality(S)))
             /\ Cardinality(S) > N => r.more = <<Cardinality(S) - Len(listed)>>
             /\ Cardinality(S) <= N => r.more = <<>>

\* C8: for every sample size --examples accepts, display_examples returns "None"
\* for an empty set, and otherwise the Min(N, |S|) smallest elements in order,
\* followed when |S| > N by '... (K more)' with listed + K = |S|.
CE_C8 ==
    pc = "done" =>
        /\ AsDescribed(eb_files_without_modules, examples, shown[1])
        /\ AsDescribed(modules_without_eb_files, examples, shown[2])

\* The order of the steps of a run, a new run starting only after a completed
\* one; the files change in the two write steps only.
StepOrder ==
    /\ <<pc, pc'>> \in {<<"start", "read">>, <<"start", "failed">>,
                        <<"read", "scanned">>, <<"scanned", "diffed">>,
                        <<"diffed", "wrote_eb_repo">>,
                        <<"wrote_eb_repo", "wrote_modules">>,
                        <<"wrote_modules", "done">>, <<"done", "start">>}
    /\ fs'["ext_eb_repo.txt"] # fs["ext_eb_repo.txt"] => pc = "diffed"
    /\ fs'["ext_modules.txt"] # fs["ext_modules.txt"] => pc = "wrote_eb_repo"

\* A run whose manifest cannot be opened has failed at the read step and has
\* done nothing else.
FailsAtRead ==
    (pc # "start" /\ ~fsStart[modules_file].exists) =>
        /\ pc = "failed"
        /\ fs = fsStart
        /\ eb_files = <<>>
        /\ summary = NoSummary

\* C9: when the manifest cannot be opened the run ends failed at the read step,
\* the scan is never started and no file of the working directory is created
\* or changed; the steps of a run occur only in the order read, scan, diff,
\* write ext_eb_repo.txt, write ext_modules.txt, report.
Thm_C9 == [](FailsAtRead) /\ [][StepOrder]_vars

Wit_C9 ==
    /\ pc = "failed"
    /\ ~fs[modules_file].exists
    /\ fs["ext_eb_repo.txt"] = File(<<L_stale>>)
    /\ fs["ext_modules.txt"] = File(<<L_stale>>)

\* C10: in the summary of a completed run, (.eb files) - (.eb files without
\* modules) equals (modules) - (modules without .eb files), both being the
\* number of identifiers found on both sides.
CE_C10 ==
    pc = "done" =>
        LET both == Cardinality(ToSet(eb_files) \cap ToSet(modules))
        IN  /\ summary.eb_files - summary.eb_files_without_modules = both
            /\ summary.modules - summary.modules_without_eb_files = both

\* C10 as amended: each of the two differences is the number of identifiers
\* found on both sides plus the number of repeated occurrences in its own
\* list, so the two agree when neither list repeats an identifier.
Thm_C10 ==
    pc = "done" =>
        LET both == Cardinality(ToSet(eb_files) \cap ToSet(modules))
            repeatedFiles == Len(eb_files) - Cardinality(ToSet(eb_files))
            repeatedModules == Len(modules) - Cardinality(ToSet(modules))
        IN  /\ summary.eb_files - summary.eb_files_without_modules
                  = both + repeatedFiles
            /\ summary.modules - summary.modules_without_eb_files
                  = both + repeatedModules
            /\ (repeatedFiles = 0 /\ repeatedModules = 0) =>
                  summary.eb_files - summary.eb_files_without_modules
                      = summary.modules - summary.modules_without_eb_files

Wit_C10 ==
    /\ pc = "done"
    /\ modules = <<Id_gcc, Id_gcc>>
    /\ eb_files = <<Id_gcc, Id_gcc>>
    /\ summary.eb_files = 2
    /\ summary.modules = 2

====
